---- MODULE Spec2Model ----
(***************************************************************************)
(* daemon.py: daemonize(workdir, redirect_to, umask), the double-fork      *)
(* daemonization sequence.  Three processes take part: the caller          *)
(* ("original"), the child of the first fork ("intermediate") and the      *)
(* child of the second fork ("final").  Every process runs the same code;  *)
(* pc[p] is the source line process p is about to execute.  The operating  *)
(* system's part (process ids, sessions, process groups, controlling       *)
(* terminals, descriptor tables) is modelled after POSIX as implemented    *)
(* by Linux: a failed close still releases the descriptor, a process that  *)
(* exits hands its children to init.                                       *)
(***************************************************************************)
EXTENDS Integers, Sequences, FiniteSets, TLC

\* ----------------------------------------------------------------------
\* Bounds of the model
\* ----------------------------------------------------------------------
\* Process ids are drawn from 1..MaxPid.
MaxPid == 5
\* Inherited descriptors are drawn from 0..MaxLowFd, plus one above 1024.
MaxLowFd == 3

\* ----------------------------------------------------------------------
\* Program and system constants
\* ----------------------------------------------------------------------
\* The init process, which adopts orphans (daemon.py, lines 71-72).
InitPid == 1
\* The process that launched the caller (the "command-line or shell").
ShellPid == InitPid + 1
\* The process that calls daemonize.
OrigPid == ShellPid + 1
\* Fallback ceiling of the close loop (daemon.py, line 104).
DefaultMaxfd == 1024
\* resource.RLIM_INFINITY
RLIM_INFINITY == -1
\* Exit status handed to os._exit (daemon.py, lines 94 and 96).
ExitStatus == 0
\* Default of the umask parameter (daemon.py, line 25).
DefaultUmask == 0
\* File creation mask the caller runs with (022) and another argument (077).
CallerUmask == 2 * 8 + 2
OtherUmask == 7 * 8 + 7
\* Default of the workdir parameter (daemon.py, line 25), the caller's
\* directory, and the "leave unchanged" sentinel.
DefaultWorkdir == "/"
CallerCwd == "/home/user"
None == "None"

Proc == <<"original", "intermediate", "final">>
Procs == {Proc[i] : i \in 1..3}
\* The process created by a fork of p.
Child(p) == IF p = "original" THEN "intermediate" ELSE "final"

Pids == 1..MaxPid

\* What a descriptor refers to.  "tty", "file" and "nfs" are files open in
\* the caller before the call ("nfs": close reports EIO on it); "redirect"
\* is the open file created by line 120.
Inherited == {"tty", "file", "nfs"}

VARIABLES
    pc,           \* pc[p]: source line p executes next, or absent/exited/raised/returned
    ospid,        \* ospid[p]: process id (0: not created)
    ppid,         \* ppid[p]: parent process id
    pgid,         \* pgid[p]: process group id
    sid,          \* sid[p]: session id
    ctty,         \* set of session ids that have a controlling terminal
    fdt,          \* fdt[p]: descriptor table, a function open fd -> target
    cwd,          \* cwd[p]: working directory
    fmask,        \* fmask[p]: file creation mask
    nofile,       \* RLIMIT_NOFILE of the process tree (soft = hard)
    workdir,      \* argument workdir
    umask,        \* argument umask
    pid,          \* pid[p]: the local variable pid (result of os.fork)
    maxfd,        \* maxfd[p]: the local variable maxfd
    fd,           \* fd[p]: the loop variable fd
    status,       \* status[p]: exit status, -1 while running
    err,          \* err[p]: the OSError raised out of daemonize, or "none"
    swallowed,    \* swallowed[p]: errors caught by the except clause of line 110
    hist,         \* calls completed successfully, in order: <<process, call, argument>>
    atcall,       \* the caller's attributes when it called daemonize
    hooks         \* hooks[p]: p has run the atexit hooks and flushed its stdio buffers

vars == <<pc, ospid, ppid, pgid, sid, ctty, fdt, cwd, fmask, nofile, workdir,
          umask, pid, maxfd, fd, status, err, swallowed, hist, atcall, hooks>>

\* ----------------------------------------------------------------------
\* Initial states: the caller is about to execute line 60
\* ----------------------------------------------------------------------
\* Values the descriptor limit can have (getrlimit(RLIMIT_NOFILE)[1]).
RlimitValues == {0, 2, MaxLowFd, RLIM_INFINITY}
DefaultRlimit == MaxLowFd + 1

\* Arguments of the call.
WorkdirArgs == {DefaultWorkdir, None, "/var/run"}
UmaskArgs == {DefaultUmask, OtherUmask}

\* Descriptor tables the caller can have: the standard streams all on the
\* terminal, all closed, or only 0 closed; every descriptor 3..MaxLowFd
\* closed, open on a file, or open on a file whose close reports an error;
\* descriptor 1024 closed or open on a file.
StdTables ==
    { [n \in 0..2 |-> "tty"], [n \in 1..2 |-> "tty"], [n \in {} |-> "tty"] }
LowTables == UNION { [E -> {"file", "nfs"}] : E \in SUBSET (3..MaxLowFd) }
HighTables == { [n \in {} |-> "file"], [n \in {DefaultMaxfd} |-> "file"] }
Merge(f, g) ==
    [n \in DOMAIN f \cup DOMAIN g |-> IF n \in DOMAIN f THEN f[n] ELSE g[n]]
InitFdTables ==
    { Merge(s, Merge(l, h)) : s \in StdTables, l \in LowTables, h \in HighTables }
DefaultFdTable == [n \in 0..2 |-> "tty"]

\* Session, process group and controlling terminal of the caller: it is a
\* session leader, a process-group leader only, or neither; its session has
\* a controlling terminal or none.
SessionConfigs ==
    { c \in [pgid : {ShellPid, OrigPid}, sid : {ShellPid, OrigPid}, tty : BOOLEAN] :
        c.sid = OrigPid => c.pgid = OrigPid }
DefaultSession == [pgid |-> ShellPid, sid |-> ShellPid, tty |-> TRUE]

InitWith(c, t, lim, w, u) ==
    /\ pc = [p \in Procs |-> IF p = "original" THEN "L60" ELSE "absent"]
    /\ ospid = [p \in Procs |-> IF p = "original" THEN OrigPid ELSE 0]
    /\ ppid = [p \in Procs |-> IF p = "original" THEN ShellPid ELSE 0]
    /\ pgid = [p \in Procs |-> IF p = "original" THEN c.pgid ELSE 0]
    /\ sid = [p \in Procs |-> IF p = "original" THEN c.sid ELSE 0]
    /\ ctty = IF c.tty THEN {c.sid} ELSE {}
    /\ fdt = [p \in Procs |-> IF p = "original" THEN t ELSE <<>>]
    /\ cwd = [p \in Procs |-> IF p = "original" THEN CallerCwd ELSE "none"]
    /\ fmask = [p \in Procs |-> IF p = "original" THEN CallerUmask ELSE 0]
    /\ nofile = lim
    /\ workdir = w
    /\ umask = u
    /\ pid = [p \in Procs |-> -1]
    /\ maxfd = [p \in Procs |-> -1]
    /\ fd = [p \in Procs |-> -1]
    /\ status = [p \in Procs |-> -1]
    /\ err = [p \in Procs |-> "none"]
    /\ swallowed = [p \in Procs |-> {}]
    /\ hist = <<>>
    /\ atcall = [pgid |-> c.pgid, sid |-> c.sid, tty |-> c.tty, fdt |-> t,
                 cwd |-> CallerCwd, fmask |-> CallerUmask]
    /\ hooks = [p \in Procs |-> FALSE]

\* Either the caller's session and the arguments vary (descriptor table and
\* limit the usual ones), or the descriptor table and the limit vary.
Init ==
    \/ \E c \in SessionConfigs, w \in WorkdirArgs, u \in UmaskArgs :
          InitWith(c, DefaultFdTable, DefaultRlimit, w, u)
    \/ \E t \in InitFdTables, lim \in RlimitValues :
          InitWith(DefaultSession, t, lim, DefaultWorkdir, DefaultUmask)

\* ----------------------------------------------------------------------
\* Operating system
\* ----------------------------------------------------------------------
Alive(p) == pc[p] \notin {"absent", "exited"}
\* Ids in use: init, the shell and its session/group, and every process
\* that was created (an exited process keeps its id until it is reaped).
UsedPids ==
    {InitPid, ShellPid} \cup {ospid[p] : p \in Procs} \cup
    {pgid[p] : p \in Procs} \cup {sid[p] : p \in Procs}
FreshPids == Pids \ UsedPids
\* Ids of the process groups that exist.
ActivePgids == {ShellPid} \cup {pgid[p] : p \in {q \in Procs : Alive(q)}}
IsSessionLeader(p) == sid[p] = ospid[p]
IsOpen(p, n) == n \in DOMAIN fdt[p]
Log(p, call, arg) == hist' = Append(hist, <<p, call, arg>>)
Raise(p, e) == /\ pc' = [pc EXCEPT ![p] = "raised"]
               /\ err' = [err EXCEPT ![p] = e]

\* ----------------------------------------------------------------------
\* daemonize, line by line
\* ----------------------------------------------------------------------
\* Line 62 / line 80: "if pid == 0".
IsChildMutant(v) == v # 0
IsChild(v) == v = 0

\* Lines 60 and 78: pid = os.fork().  The child is a copy of the parent
\* with a fresh process id; it continues at the same line with pid = 0.
ForkAt(p, line, next) ==
    /\ pc[p] = line
    /\ p # "final"
    /\ pc[Child(p)] = "absent"
    /\ \E np \in FreshPids :
        LET c == Child(p) IN
        /\ pc' = [pc EXCEPT ![p] = next, ![c] = next]
        /\ ospid' = [ospid EXCEPT ![c] = np]
        /\ ppid' = [ppid EXCEPT ![c] = ospid[p]]
        /\ pgid' = [pgid EXCEPT ![c] = pgid[p]]
        /\ sid' = [sid EXCEPT ![c] = sid[p]]
        /\ fdt' = [fdt EXCEPT ![c] = fdt[p]]
        /\ cwd' = [cwd EXCEPT ![c] = cwd[p]]
        /\ fmask' = [fmask EXCEPT ![c] = fmask[p]]
        /\ pid' = [pid EXCEPT ![p] = np, ![c] = 0]
        /\ maxfd' = [maxfd EXCEPT ![c] = maxfd[p]]
        /\ fd' = [fd EXCEPT ![c] = fd[p]]
        /\ swallowed' = [swallowed EXCEPT ![c] = swallowed[p]]
        /\ Log(p, "fork", np)
    /\ UNCHANGED <<atcall, hooks, ctty, nofile, workdir, umask, status, err>>

\* os.fork() raises OSError (EAGAIN, ENOMEM): no process is created.
ForkFailAt(p, line) ==
    /\ pc[p] = line
    /\ Raise(p, "fork")
    /\ UNCHANGED <<atcall, hooks, ospid, ppid, pgid, sid, ctty, fdt, cwd, fmask, nofile, workdir,
                   umask, pid, maxfd, fd, status, swallowed, hist>>

Fork1(p) == ForkAt(p, "L60", "L62")
Fork1Fail(p) == ForkFailAt(p, "L60")
Fork2(p) == ForkAt(p, "L78", "L80")
Fork2Fail(p) == ForkFailAt(p, "L78")

\* Line 62: the first child goes on to setsid, the parent to line 96.
Branch1(p) ==
    /\ pc[p] = "L62"
    /\ pc' = [pc EXCEPT ![p] = IF IsChild(pid[p]) THEN "L66" ELSE "L96"]
    /\ UNCHANGED <<atcall, hooks, ospid, ppid, pgid, sid, ctty, fdt, cwd, fmask, nofile, workdir,
                   umask, pid, maxfd, fd, status, err, swallowed, hist>>

\* Line 66: os.setsid().  It fails with EPERM when the caller is a process
\* group leader; otherwise the caller becomes the leader of a new session
\* and of a new process group, and the new session has no controlling
\* terminal.
SetsidNoop(p) ==
    /\ pc[p] = "L66"
    /\ pc' = [pc EXCEPT ![p] = "L78"]
    /\ Log(p, "setsid", 0)
    /\ UNCHANGED <<atcall, hooks, ospid, ppid, pgid, sid, ctty, fdt, cwd, fmask, nofile, workdir,
                   umask, pid, maxfd, fd, status, err, swallowed>>
Setsid(p) ==
    /\ pc[p] = "L66"
    /\ IF ospid[p] \in ActivePgids
       THEN /\ Raise(p, "setsid")
            /\ UNCHANGED <<sid, pgid, ctty, hist>>
       ELSE /\ pc' = [pc EXCEPT ![p] = "L78"]
            /\ sid' = [sid EXCEPT ![p] = ospid[p]]
            /\ pgid' = [pgid EXCEPT ![p] = ospid[p]]
            /\ ctty' = ctty \ {ospid[p]}
            /\ Log(p, "setsid", 0)
            /\ UNCHANGED err
    /\ UNCHANGED <<atcall, hooks, ospid, ppid, fdt, cwd, fmask, nofile, workdir, umask, pid,
                   maxfd, fd, status, swallowed>>

\* Line 80: the second child goes on to chdir, its parent to line 94.
Branch2NoExit(p) ==
    /\ pc[p] = "L80"
    /\ pc' = [pc EXCEPT ![p] = "L85"]
    /\ UNCHANGED <<atcall, hooks, ospid, ppid, pgid, sid, ctty, fdt, cwd, fmask, nofile, workdir,
                   umask, pid, maxfd, fd, status, err, swallowed, hist>>
Branch2(p) ==
    /\ pc[p] = "L80"
    /\ pc' = [pc EXCEPT ![p] = IF IsChild(pid[p]) THEN "L85" ELSE "L94"]
    /\ UNCHANGED <<atcall, hooks, ospid, ppid, pgid, sid, ctty, fdt, cwd, fmask, nofile, workdir,
                   umask, pid, maxfd, fd, status, err, swallowed, hist>>

\* Lines 94 and 96: os._exit(0).  The process ends at once; its children
\* are handed to init; a session leader's exit frees the controlling
\* terminal of its session.  Lines 19-22: _exit, unlike exit, calls no
\* atexit hook and flushes no stdio stream (cleanup is FALSE).
ExitWith(p, code, cleanup) ==
    /\ pc[p] \in {"L94", "L96"}
    /\ pc' = [pc EXCEPT ![p] = "exited"]
    /\ status' = [status EXCEPT ![p] = code]
    /\ hooks' = [hooks EXCEPT ![p] = cleanup]
    /\ ppid' = [q \in Procs |->
                  IF q # p /\ Alive(q) /\ ppid[q] = ospid[p] THEN InitPid ELSE ppid[q]]
    /\ ctty' = IF IsSessionLeader(p) THEN ctty \ {sid[p]} ELSE ctty
    /\ UNCHANGED <<atcall, ospid, pgid, sid, fdt, cwd, fmask, nofile, workdir, umask, pid,
                   maxfd, fd, err, swallowed, hist>>
ExitFailure(p) == ExitWith(p, 1, FALSE)
ExitWithCleanup(p) == ExitWith(p, ExitStatus, TRUE)
ExitAfterWait(p) ==
    /\ p # "final" => pc[Child(p)] = "exited"
    /\ ExitWith(p, ExitStatus, FALSE)
Exit(p) == ExitWith(p, ExitStatus, FALSE)

\* Lines 85-86: "if workdir is not None: os.chdir(workdir)".
ChdirSkipped(p) ==
    /\ pc[p] = "L85"
    /\ pc' = [pc EXCEPT ![p] = "L90"]
    /\ UNCHANGED <<atcall, hooks, ospid, ppid, pgid, sid, ctty, fdt, cwd, fmask, nofile, workdir,
                   umask, pid, maxfd, fd, status, err, swallowed, hist>>
Chdir(p) ==
    /\ pc[p] = "L85"
    /\ pc' = [pc EXCEPT ![p] = "L90"]
    /\ IF workdir # None
       THEN /\ cwd' = [cwd EXCEPT ![p] = workdir]
            /\ Log(p, "chdir", 0)
       ELSE UNCHANGED <<cwd, hist>>
    /\ UNCHANGED <<atcall, hooks, ospid, ppid, pgid, sid, ctty, fdt, fmask, nofile, workdir, umask,
                   pid, maxfd, fd, status, err, swallowed>>

\* os.chdir raises OSError (ENOENT, EACCES, ENOTDIR).
ChdirFail(p) ==
    /\ pc[p] = "L85"
    /\ workdir # None
    /\ Raise(p, "chdir")
    /\ UNCHANGED <<atcall, hooks, ospid, ppid, pgid, sid, ctty, fdt, cwd, fmask, nofile, workdir,
                   umask, pid, maxfd, fd, status, swallowed, hist>>

\* Line 90: os.umask(umask); umask(2) always succeeds.
UmaskSkipped(p) ==
    /\ pc[p] = "L90"
    /\ pc' = [pc EXCEPT ![p] = "L101"]
    /\ UNCHANGED <<atcall, hooks, ospid, ppid, pgid, sid, ctty, fdt, cwd, fmask, nofile, workdir,
                   umask, pid, maxfd, fd, status, err, swallowed, hist>>
Umask(p) ==
    /\ pc[p] = "L90"
    /\ pc' = [pc EXCEPT ![p] = "L101"]
    /\ fmask' = [fmask EXCEPT ![p] = umask]
    /\ Log(p, "umask", umask)
    /\ UNCHANGED <<atcall, hooks, ospid, ppid, pgid, sid, ctty, fdt, cwd, nofile, workdir, umask,
                   pid, maxfd, fd, status, err, swallowed>>

\* Lines 101-104: the ceiling of the close loop.
CeilingNoFallback(limit) == limit
Ceiling(limit) == IF limit = RLIM_INFINITY THEN DefaultMaxfd ELSE limit

\* Lines 101-107: maxfd is computed and the loop starts at fd = 0.
GetrlimitFromOne(p) ==
    /\ pc[p] = "L101"
    /\ pc' = [pc EXCEPT ![p] = "L107"]
    /\ maxfd' = [maxfd EXCEPT ![p] = Ceiling(nofile)]
    /\ fd' = [fd EXCEPT ![p] = 1]
    /\ UNCHANGED <<atcall, hooks, ospid, ppid, pgid, sid, ctty, fdt, cwd, fmask, nofile, workdir,
                   umask, pid, status, err, swallowed, hist>>
Getrlimit(p) ==
    /\ pc[p] = "L101"
    /\ pc' = [pc EXCEPT ![p] = "L107"]
    /\ maxfd' = [maxfd EXCEPT ![p] = Ceiling(nofile)]
    /\ fd' = [fd EXCEPT ![p] = 0]
    /\ UNCHANGED <<atcall, hooks, ospid, ppid, pgid, sid, ctty, fdt, cwd, fmask, nofile, workdir,
                   umask, pid, status, err, swallowed, hist>>

\* os.close(n): EBADF when n is not open, EIO when the file reports a
\* write-back error, success otherwise.
CloseResult(p, n) ==
    IF ~IsOpen(p, n) THEN "EBADF" ELSE IF fdt[p][n] = "nfs" THEN "EIO" ELSE "ok"
\* Line 110: "except OSError" catches every error of os.close.
Caught(e) == TRUE

\* A loop that tries a descriptor again when os.close has failed on it.
CloseStepRetry(p) ==
    /\ pc[p] = "L107"
    /\ fd[p] < maxfd[p]
    /\ LET n == fd[p]
           r == CloseResult(p, n) IN
       /\ fdt' = [fdt EXCEPT ![p] = [m \in DOMAIN fdt[p] \ {n} |-> fdt[p][m]]]
       /\ fd' = [fd EXCEPT ![p] = IF r = "ok" THEN n + 1 ELSE n]
       /\ swallowed' = [swallowed EXCEPT ![p] = IF r = "ok" THEN @ ELSE @ \cup {r}]
       /\ UNCHANGED <<pc, err>>
    /\ UNCHANGED <<atcall, hooks, ospid, ppid, pgid, sid, ctty, cwd, fmask, nofile, workdir, umask,
                   pid, maxfd, status, hist>>

\* Lines 107-111: one iteration of the loop.  The descriptor is released
\* whatever os.close reports; a caught error is dropped, any other one
\* leaves daemonize.
CloseStep(p) ==
    /\ pc[p] = "L107"
    /\ fd[p] < maxfd[p]
    /\ LET n == fd[p]
           r == CloseResult(p, n) IN
       /\ fdt' = [fdt EXCEPT ![p] = [m \in DOMAIN fdt[p] \ {n} |-> fdt[p][m]]]
       /\ IF r = "ok" \/ Caught(r)
          THEN /\ fd' = [fd EXCEPT ![p] = n + 1]
               /\ swallowed' = [swallowed EXCEPT
                                  ![p] = IF r = "ok" THEN @ ELSE @ \cup {r}]
               /\ UNCHANGED <<pc, err>>
          ELSE /\ Raise(p, r)
               /\ UNCHANGED <<fd, swallowed>>
    /\ UNCHANGED <<atcall, hooks, ospid, ppid, pgid, sid, ctty, cwd, fmask, nofile, workdir, umask,
                   pid, maxfd, status, hist>>

\* Line 107: xrange(maxfd) is exhausted.
CloseLoopDone(p) ==
    /\ pc[p] = "L107"
    /\ fd[p] >= maxfd[p]
    /\ pc' = [pc EXCEPT ![p] = "L120"]
    /\ Log(p, "closed", maxfd[p])
    /\ UNCHANGED <<atcall, hooks, ospid, ppid, pgid, sid, ctty, fdt, cwd, fmask, nofile, workdir,
                   umask, pid, maxfd, fd, status, err, swallowed>>

\* The lowest descriptor number that is not open.
RECURSIVE LowestFrom(_, _)
LowestFrom(t, n) == IF n \in DOMAIN t THEN LowestFrom(t, n + 1) ELSE n
LowestFree(p) == LowestFrom(fdt[p], 0)
BelowLimit(n) == nofile = RLIM_INFINITY \/ n < nofile

\* Line 120: os.open(redirect_to, O_RDWR|O_CREAT).  The new descriptor is
\* the lowest free one; EMFILE when that one is not below the limit.  The
\* flags do not include O_NOCTTY: when redirect_to is a terminal and the
\* caller is a session leader without a controlling terminal, the terminal
\* becomes the controlling terminal of its session.
Open(p) ==
    /\ pc[p] = "L120"
    /\ LET n == LowestFree(p) IN
       IF ~BelowLimit(n)
       THEN /\ Raise(p, "open")
            /\ UNCHANGED <<fdt, ctty, hist>>
       ELSE /\ pc' = [pc EXCEPT ![p] = "L123"]
            /\ fdt' = [fdt EXCEPT ![p] = Merge((n :> "redirect"), @)]
            /\ \E isatty \in BOOLEAN :
                 ctty' = IF isatty /\ IsSessionLeader(p) THEN ctty \cup {sid[p]} ELSE ctty
            /\ Log(p, "open", n)
            /\ UNCHANGED err
    /\ UNCHANGED <<atcall, hooks, ospid, ppid, pgid, sid, cwd, fmask, nofile, workdir, umask, pid,
                   maxfd, fd, status, swallowed>>

\* os.open raises OSError (EACCES, ENOENT, EISDIR, ...).
OpenFail(p) ==
    /\ pc[p] = "L120"
    /\ Raise(p, "open")
    /\ UNCHANGED <<atcall, hooks, ospid, ppid, pgid, sid, ctty, fdt, cwd, fmask, nofile, workdir,
                   umask, pid, maxfd, fd, status, swallowed, hist>>

\* os.dup2(old, new): EBADF when old is not open or new is not below the
\* limit; otherwise new refers to the open file old refers to.
Dup2At(p, line, next, old, new) ==
    /\ pc[p] = line
    /\ IF ~IsOpen(p, old) \/ ~BelowLimit(new)
       THEN /\ Raise(p, "dup2")
            /\ UNCHANGED <<fdt, hist>>
       ELSE /\ pc' = [pc EXCEPT ![p] = next]
            /\ fdt' = [fdt EXCEPT ![p] = Merge((new :> @[old]), @)]
            /\ Log(p, "dup2", new)
            /\ UNCHANGED err
    /\ UNCHANGED <<atcall, hooks, ospid, ppid, pgid, sid, ctty, cwd, fmask, nofile, workdir, umask,
                   pid, maxfd, fd, status, swallowed>>

\* os.dup2 raises OSError (EINTR, EBUSY).
Dup2FailAt(p, line) ==
    /\ pc[p] = line
    /\ Raise(p, "dup2")
    /\ UNCHANGED <<atcall, hooks, ospid, ppid, pgid, sid, ctty, fdt, cwd, fmask, nofile, workdir,
                   umask, pid, maxfd, fd, status, swallowed, hist>>

\* Line 123: os.dup2(0, 1).
DupStdout(p) == Dup2At(p, "L123", "L124", 0, 1)
DupStdoutFail(p) == Dup2FailAt(p, "L123")
\* Line 124: os.dup2(0, 2), then daemonize returns.
DupStderrOnto1(p) == Dup2At(p, "L124", "returned", 0, 1)
DupStderr(p) == Dup2At(p, "L124", "returned", 0, 2)
DupStderrFail(p) == Dup2FailAt(p, "L124")

\* One step of process p.
daemonize(p) ==
    \/ Fork1(p) \/ Fork1Fail(p) \/ Branch1(p) \/ Setsid(p)
    \/ Fork2(p) \/ Fork2Fail(p) \/ Branch2(p)
    \/ Chdir(p) \/ ChdirFail(p) \/ Umask(p) \/ Exit(p)
    \/ Getrlimit(p) \/ CloseStep(p) \/ CloseLoopDone(p)
    \/ Open(p) \/ OpenFail(p)
    \/ DupStdout(p) \/ DupStdoutFail(p) \/ DupStderr(p) \/ DupStderrFail(p)

\* Lines 127-149: the program that called daemonize comes to its end in
\* process p, by running off the end of the script after the return or by
\* an exception nobody catches.  This is the interpreter's normal exit
\* (lines 19-22): atexit hooks run and the stdio streams are flushed.
InterpreterExit(p) ==
    /\ pc[p] \in {"returned", "raised"}
    /\ status[p] = -1
    /\ status' = [status EXCEPT ![p] = IF pc[p] = "returned" THEN 0 ELSE 1]
    /\ hooks' = [hooks EXCEPT ![p] = TRUE]
    /\ UNCHANGED <<atcall, pc, ospid, ppid, pgid, sid, ctty, fdt, cwd, fmask, nofile,
                   workdir, umask, pid, maxfd, fd, err, swallowed, hist>>

Next == \E p \in Procs : daemonize(p) \/ InterpreterExit(p)

Spec == Init /\ [][Next]_vars

\* Initial states of the runs checked for progress: the caller's session
\* and the arguments vary, or the descriptor limit does; the descriptor
\* table is the usual one (progress does not depend on what is open).
InitFair ==
    \/ \E c \in SessionConfigs, w \in WorkdirArgs, u \in UmaskArgs :
          InitWith(c, DefaultFdTable, DefaultRlimit, w, u)
    \/ \E lim \in RlimitValues :
          InitWith(DefaultSession, DefaultFdTable, lim, DefaultWorkdir, DefaultUmask)

\* The scheduler runs every process that can run: no process that has a
\* step to take waits forever.
FairSpec == InitFair /\ [][Next]_vars /\ \A p \in Procs : WF_vars(daemonize(p))

\* The scheduler is only assumed to run a process that has forked a child
\* (lines 62 and 96 in the original, lines 80 and 94 in the intermediate):
\* a child may never be scheduled at all.
ParentStep(p) == pc[p] \in {"L62", "L80", "L94", "L96"} /\ pid[p] > 0 /\ daemonize(p)
ParentFairSpec ==
    InitFair /\ [][Next]_vars /\ \A p \in {"original", "intermediate"} : WF_vars(ParentStep(p))

\* ----------------------------------------------------------------------
\* Properties
\* ----------------------------------------------------------------------
\* The calls of hist that process p made.
CallsOf(p) == { hist[i][2] : i \in { j \in 1..Len(hist) : hist[j][1] = p } }
\* The calls of hist, without their arguments.
Calls == [i \in 1..Len(hist) |-> <<hist[i][1], hist[i][2]>>]
\* How many times process p completed the call.
Count(p, call) == Cardinality({ i \in 1..Len(hist) : hist[i][1] = p /\ hist[i][2] = call })
IsPrefix(a, b) == Len(a) <= Len(b) /\ \A i \in 1..Len(a) : a[i] = b[i]
Returned(p) == pc[p] = "returned"

\* C1  Single return point: only the final process ever returns from
\* daemonize; the original and the intermediate, once their own fork has
\* succeeded, do nothing but exit with status 0: the original completes no
\* call but its fork, the intermediate none but setsid and its fork, and
\* neither computes maxfd or enters the close loop.
SingleReturnPoint ==
    /\ \A p \in Procs : Returned(p) => p = "final"
    /\ \A p \in {"original", "intermediate"} :
          /\ pc[p] = "exited" => status[p] = 0
          /\ maxfd[p] = -1 /\ fd[p] = -1
          /\ pc[p] = "raised" => pc[Child(p)] = "absent"
    /\ CallsOf("original") \subseteq {"fork"}
    /\ CallsOf("intermediate") \subseteq {"setsid", "fork"}
    /\ pc["original"] \in {"L60", "L62", "L96", "exited", "raised"}
    /\ pc["intermediate"] \in {"absent", "L62", "L66", "L78", "L80", "L94", "exited", "raised"}
    /\ pc["final"] # "absent" => pc["original"] \in {"L62", "L96", "exited"}
                             /\ pc["intermediate"] \in {"L80", "L94", "exited"}
\* The final process has returned and the two others have exited.
SingleReturnPointWitness ==
    /\ Returned("final")
    /\ pc["original"] = "exited" /\ pc["intermediate"] = "exited"

\* C2  No controlling terminal: once the final process has returned it is
\* not a session leader and its session has no controlling terminal.
NoControllingTerminal ==
    Returned("final") =>
        /\ sid["final"] # ospid["final"]
        /\ sid["final"] \notin ctty
\* The final process has returned from a call made by a session leader
\* whose session has a controlling terminal.
NoControllingTerminalWitness ==
    /\ Returned("final")
    /\ atcall.sid = OrigPid /\ atcall.tty
    /\ sid["original"] \in ctty

\* C3  Descriptor isolation: in the final process after the return, every
\* descriptor that was open at the call is closed or, for 0, 1 and 2,
\* refers to redirect_to.
DescriptorIsolation ==
    Returned("final") =>
        \A n \in DOMAIN atcall.fdt :
            \/ ~IsOpen("final", n)
            \/ n \in 0..2 /\ fdt["final"][n] = "redirect"

\* C4  Standard stream aliasing: when the final process has returned,
\* descriptors 0, 1 and 2 are open and refer to the file opened by line 120.
StandardStreamAliasing ==
    Returned("final") =>
        \A n \in 0..2 : IsOpen("final", n) /\ fdt["final"][n] = "redirect"
\* The final process has returned from a call made with descriptor 0
\* closed and descriptors 1 and 2 open.
StandardStreamAliasingWitness ==
    /\ Returned("final")
    /\ 0 \notin DOMAIN atcall.fdt /\ {1, 2} \subseteq DOMAIN atcall.fdt

\* The order of the calls of a complete run.
ExpectedCalls ==
    <<  <<"original", "fork">>, <<"intermediate", "setsid">>, <<"intermediate", "fork">> >>
    \o (IF workdir # None THEN << <<"final", "chdir">> >> ELSE << >>)
    \o << <<"final", "umask">>, <<"final", "closed">>, <<"final", "open">>,
          <<"final", "dup2">>, <<"final", "dup2">> >>
\* Position of the call in hist, 0 when it has not been made.
IndexOf(call) ==
    LET I == { i \in 1..Len(hist) : hist[i][2] = call }
    IN IF I = {} THEN 0 ELSE CHOOSE i \in I : \A j \in I : i <= j

\* C5  Step ordering: the calls completed so far are a prefix of first
\* fork, setsid, second fork, chdir (when workdir is not None), umask, close
\* loop, open, dup2(0,1), dup2(0,2); no descriptor is closed before umask
\* has completed, and open is not called before the loop has tried every
\* descriptor below the ceiling.
StepOrdering ==
    /\ IsPrefix(Calls, ExpectedCalls)
    /\ \A p \in Procs :
          /\ fd[p] >= 0 => IndexOf("umask") > 0
          /\ IndexOf("umask") = 0 /\ pc[p] # "absent" => fdt[p] = atcall.fdt
          /\ pc[p] \in {"L120", "L123", "L124", "returned"} =>
                /\ IndexOf("closed") > 0
                /\ fd[p] = maxfd[p]
    /\ IndexOf("closed") > 0 => fd["final"] = maxfd["final"]
    /\ \A i \in 1..Len(hist) :
          hist[i][2] = "dup2" =>
              hist[i][3] = (IF i = Len(ExpectedCalls) THEN 2 ELSE 1)
\* A complete run with a working directory: all nine calls were made.
StepOrderingWitness ==
    /\ Returned("final")
    /\ workdir # None
    /\ Len(hist) = Len(ExpectedCalls)

\* C6 as stated: the working directory and the file creation mask are set
\* after the close loop has finished.
AttributesSetAfterCleanup ==
    \A i \in 1..Len(hist) :
        hist[i][2] \in {"chdir", "umask"} => 0 < IndexOf("closed") /\ IndexOf("closed") < i
\* C6 amended: the file creation mask, and the working directory when
\* workdir is not None, are set exactly once, by the final process, before
\* the close loop starts (so before the return) and keep their value; when
\* workdir is None the working directory is never set.
AttributesSetOnceBeforeCleanup ==
    /\ \A p \in Procs \ {"final"} : CallsOf(p) \cap {"chdir", "umask"} = {}
    /\ Count("final", "chdir") <= 1 /\ Count("final", "umask") <= 1
    /\ workdir = None => Count("final", "chdir") = 0
    /\ pc["final"] \in {"L62", "L80", "L85", "L90"} =>
          /\ fdt["final"] = atcall.fdt
          /\ maxfd["final"] = -1 /\ fd["final"] = -1
    /\ pc["final"] \in {"L101", "L107", "L120", "L123", "L124", "returned"} =>
          /\ Count("final", "umask") = 1
          /\ Count("final", "chdir") = (IF workdir # None THEN 1 ELSE 0)
          /\ fmask["final"] = umask
          /\ cwd["final"] = (IF workdir # None THEN workdir ELSE atcall.cwd)
    /\ IndexOf("closed") > 0 =>
          /\ 0 < IndexOf("umask") /\ IndexOf("umask") < IndexOf("closed")
          /\ IndexOf("chdir") < IndexOf("closed")
\* Both attributes are set and the close loop is under way.
AttributesSetOnceWitness ==
    /\ pc["final"] = "L107"
    /\ 0 < fd["final"] /\ fd["final"] < maxfd["final"]
    /\ workdir # None

\* What the caller's process looks like when nothing has been done to it.
CallerUnchanged ==
    /\ pgid["original"] = atcall.pgid /\ sid["original"] = atcall.sid
    /\ fdt["original"] = atcall.fdt
    /\ cwd["original"] = atcall.cwd /\ fmask["original"] = atcall.fmask
    /\ ctty = (IF atcall.tty THEN {atcall.sid} ELSE {})

\* C7 as stated: an error of a fork or of setsid is raised in the original
\* process, which is unchanged, and no other process exists.
ProcessControlFailureInOriginal ==
    \A p \in Procs :
        pc[p] = "raised" /\ err[p] \in {"fork", "setsid"} =>
            /\ p = "original"
            /\ CallerUnchanged
            /\ \A q \in Procs \ {"original"} : pc[q] = "absent"
\* C7 amended: a failure of the first fork is raised in the original
\* process, which is unchanged and alone (no call completed, no other
\* process).  A failure of setsid or of the second fork is raised in the
\* intermediate process: no final process exists, the original is on its
\* way to exit with status 0 or has done so, and the intermediate has
\* completed no call but setsid.
ProcessControlFailure ==
    /\ pc["original"] = "raised" =>
          /\ err["original"] = "fork"
          /\ CallerUnchanged
          /\ hist = << >>
          /\ \A q \in Procs \ {"original"} : pc[q] = "absent"
    /\ pc["intermediate"] = "raised" =>
          /\ err["intermediate"] \in {"fork", "setsid"}
          /\ pc["final"] = "absent"
          /\ pc["original"] \in {"L62", "L96", "exited"}
          /\ pc["original"] = "exited" => status["original"] = 0
          /\ CallsOf("intermediate") \subseteq {"setsid"}
          /\ fdt["intermediate"] = atcall.fdt
    /\ \A p \in Procs : err[p] \in {"fork", "setsid"} => p # "final"
\* The second fork has failed in the intermediate process, after the
\* original has exited.
ProcessControlFailureWitness ==
    /\ pc["intermediate"] = "raised" /\ err["intermediate"] = "fork"
    /\ pc["original"] = "exited"

\* C8  In the close loop only "descriptor was not open" (EBADF) is dropped;
\* every other error of os.close leaves daemonize.
OnlyNotOpenSwallowed ==
    \A p \in Procs : swallowed[p] \subseteq {"EBADF"}

\* C9  Default and null arguments: after the return the working directory
\* of the final process is workdir, or the caller's directory at the call
\* when workdir is None, in which case no process ever calls chdir; its
\* file creation mask is the umask argument.
DefaultAndNullArguments ==
    /\ workdir = None => \A p \in Procs : "chdir" \notin CallsOf(p) /\ cwd[p] \in {"none", atcall.cwd}
    /\ Returned("final") =>
          /\ workdir = None => cwd["final"] = atcall.cwd
          /\ workdir # None => cwd["final"] = workdir
          /\ fmask["final"] = umask
\* The final process has returned from a call with workdir None and a
\* umask that is not the default.
DefaultAndNullArgumentsWitness ==
    /\ Returned("final")
    /\ workdir = None
    /\ umask # DefaultUmask

\* C10  Reparenting: once the second fork has succeeded the intermediate
\* eventually exits, also after the final process has returned, and
\* whenever the intermediate has exited the parent of the final process is
\* init.
Reparenting ==
    /\ (pc["final"] # "absent") ~> (pc["intermediate"] = "exited" /\ ppid["final"] = InitPid)
    /\ Returned("final") ~> (pc["intermediate"] = "exited" /\ ppid["final"] = InitPid)
    /\ [](pc["intermediate"] = "exited" /\ pc["final"] # "absent" => ppid["final"] = InitPid)
    /\ [](pc["intermediate"] # "exited" /\ pc["final"] # "absent" =>
             ppid["final"] = ospid["intermediate"])
\* The final process returned while the intermediate was still running
\* and is now a child of init.
ReparentingWitness ==
    /\ Returned("final")
    /\ pc["intermediate"] = "exited"
    /\ ppid["final"] = InitPid
    /\ pc["original"] # "exited"

\* C11  Whenever the first fork has succeeded the original process exits,
\* with status 0, whatever becomes of setsid, the second fork, chdir,
\* umask, open or dup2 in its descendants.
OriginalExitsZero ==
    /\ (pc["intermediate"] # "absent") ~>
           (pc["original"] = "exited" /\ status["original"] = 0)
    /\ [](pc["original"] = "exited" => [](pc["original"] = "exited" /\ status["original"] = 0))
\* The original has exited with status 0 and a later call has failed in a
\* descendant.
OriginalExitsZeroWitness ==
    /\ pc["original"] = "exited" /\ status["original"] = 0
    /\ \E p \in {"intermediate", "final"} : pc[p] = "raised"

\* C12  A failure of chdir, umask, open or dup2 is raised only in the final
\* process and is fatal to it: the process has terminated when the error
\* leaves daemonize, it does not go on into the caller's code.
FailureFatalToDaemon ==
    \A p \in Procs :
        pc[p] = "raised" /\ err[p] \in {"chdir", "umask", "open", "dup2"} =>
            /\ p = "final"
            /\ status[p] # -1

\* C13 as stated: the atexit hooks and the flush of the stdio buffers run
\* at most once over the three processes, and never in the original or in
\* the intermediate.
CleanupNeverInParents ==
    /\ Cardinality({ p \in Procs : hooks[p] }) <= 1
    /\ ~hooks["original"] /\ ~hooks["intermediate"]
\* C13 amended: the hooks and the flush run at most once over the three
\* processes, never in a process that ended by os._exit and never in the
\* original or the intermediate once its own fork has succeeded; they run
\* in one of these two only when its fork (or setsid) failed and the error
\* left daemonize there, and then it has no child.
CleanupAtMostOnce ==
    /\ Cardinality({ p \in Procs : hooks[p] }) <= 1
    /\ \A p \in Procs : pc[p] = "exited" => ~hooks[p]
    /\ \A p \in {"original", "intermediate"} :
          hooks[p] => /\ pc[p] = "raised"
                      /\ err[p] \in {"fork", "setsid"}
                      /\ pc[Child(p)] = "absent"
    /\ pc["final"] # "absent" => ~hooks["original"] /\ ~hooks["intermediate"]
\* The hooks have run in the final process, after both its ancestors left
\* by os._exit.
CleanupAtMostOnceWitness ==
    /\ hooks["final"] /\ Returned("final")
    /\ pc["original"] = "exited" /\ pc["intermediate"] = "exited"

\* The descriptors of the caller that process p has tried to close so far
\* (the loop has tried 0 .. fd[p] - 1).
AttemptedOpen(p) == { n \in DOMAIN atcall.fdt : n < fd[p] }

\* C14  Close loop: the ceiling is the descriptor limit, or 1024 when the
\* limit is unbounded.  The descriptors tried so far are exactly those
\* below the loop variable: they are closed, each has left its error, if
\* any, in the except clause without stopping the loop, and the others are
\* as the caller had them.  When the loop ends every descriptor below the
\* ceiling has been tried and none is open.
CloseLoop ==
    LET p == "final" IN
    /\ maxfd[p] # -1 =>
          /\ maxfd[p] = (IF nofile = RLIM_INFINITY THEN 1024 ELSE nofile)
          /\ 0 <= fd[p] /\ fd[p] <= maxfd[p]
    /\ pc[p] = "L107" =>
          /\ DOMAIN fdt[p] = DOMAIN atcall.fdt \ AttemptedOpen(p)
          /\ \A n \in DOMAIN fdt[p] : fdt[p][n] = atcall.fdt[n]
          /\ ("EBADF" \in swallowed[p]) = (Cardinality(AttemptedOpen(p)) < fd[p])
          /\ ("EIO" \in swallowed[p]) =
                (\E n \in AttemptedOpen(p) : atcall.fdt[n] = "nfs")
    /\ pc[p] = "L120" =>
          /\ fd[p] = maxfd[p]
          /\ \A n \in DOMAIN fdt[p] : n >= maxfd[p]
          /\ \A n \in DOMAIN atcall.fdt : n < maxfd[p] => ~IsOpen(p, n)
\* The loop has ended with the fallback ceiling after a close failed on a
\* descriptor that was not open and the higher ones were still closed.
CloseLoopWitness ==
    /\ pc["final"] = "L120"
    /\ nofile = RLIM_INFINITY
    /\ swallowed["final"] = {"EBADF", "EIO"}
    /\ 0 \notin DOMAIN atcall.fdt /\ {1, 2, 3} \subseteq DOMAIN atcall.fdt

NoWaiting ==
    /\ (pc["intermediate"] # "absent") ~> (pc["original"] = "exited")
    /\ (pc["final"] # "absent") ~> (pc["intermediate"] = "exited")
    /\ [](\A p \in {"original", "intermediate"} :
             pc[p] \in {"L62", "L80", "L94", "L96"} /\ pid[p] > 0 => ENABLED daemonize(p))
\* The original has exited and its child has not taken a step; likewise
\* the intermediate has exited and the final process has not taken a step.
NoWaitingWitness ==
    \/ pc["original"] = "exited" /\ pc["intermediate"] = "L62"
    \/ pc["intermediate"] = "exited" /\ pc["final"] = "L80"

\* C17  Session identity is established once: setsid is executed at most
\* once, by the intermediate and by no other process, and exactly once in
\* every run in which the intermediate gets past line 66; the session and
\* the process group of the original stay what they were at the call; the
\* session id and the process-group id of the final process are the
\* process id of the intermediate, which leads both, and the final process
\* leads neither.
SessionEstablishedOnce ==
    /\ \A p \in Procs \ {"intermediate"} : "setsid" \notin CallsOf(p)
    /\ Count("intermediate", "setsid") <= 1
    /\ pc["intermediate"] \in {"L78", "L80", "L94", "exited"} =>
          /\ Count("intermediate", "setsid") = 1
          /\ sid["intermediate"] = ospid["intermediate"]
          /\ pgid["intermediate"] = ospid["intermediate"]
    /\ sid["original"] = atcall.sid /\ pgid["original"] = atcall.pgid
    /\ ospid["intermediate"] \notin {atcall.sid, atcall.pgid}
    /\ pc["final"] # "absent" =>
          /\ Count("intermediate", "setsid") = 1
          /\ sid["final"] = ospid["intermediate"]
          /\ pgid["final"] = ospid["intermediate"]
          /\ ospid["final"] \notin {sid["final"], pgid["final"]}
          /\ sid["final"] # atcall.sid /\ pgid["final"] # atcall.pgid
\* The final process has returned from a call made by a process that led
\* its process group but not its session.
SessionEstablishedOnceWitness ==
    /\ Returned("final")
    /\ atcall.pgid = OrigPid /\ atcall.sid = ShellPid

\* C19  setsid never fails with "the caller is a process group leader":
\* the process at line 66 is the child of the first fork, its process id
\* is new, its process group is the caller's, and no process group has its
\* process id, also when the caller led its group or its session.
SetsidNeverFails ==
    /\ \A p \in Procs :
          pc[p] = "L66" =>
              /\ p = "intermediate"
              /\ pid[p] = 0
              /\ ppid[p] \in {ospid["original"], InitPid}
              /\ pgid[p] = atcall.pgid
              /\ ospid[p] # pgid[p]
              /\ ospid[p] \notin ActivePgids
    /\ \A p \in Procs : err[p] # "setsid"
\* setsid has succeeded in the child of a caller that led its session.
SetsidNeverFailsWitness ==
    /\ pc["intermediate"] = "L78"
    /\ atcall.sid = OrigPid /\ atcall.pgid = OrigPid

\* The source line a process is at; a process that has left daemonize is
\* past every line, one that does not exist yet is before every line.
LineOf(l) ==
    CASE l = "absent" -> 0
      [] l = "L60" -> 60   [] l = "L62" -> 62   [] l = "L66" -> 66
      [] l = "L78" -> 78   [] l = "L80" -> 80   [] l = "L85" -> 85
      [] l = "L90" -> 90   [] l = "L94" -> 94   [] l = "L96" -> 96
      [] l = "L101" -> 101 [] l = "L107" -> 107 [] l = "L120" -> 120
      [] l = "L123" -> 123 [] l = "L124" -> 124
      [] OTHER -> 150
InDaemonize(p) == pc[p] \notin {"absent", "returned", "raised", "exited"}
\* Every process is through: the parents have exited, the final process
\* has returned.
AllDone ==
    /\ pc["original"] = "exited" /\ pc["intermediate"] = "exited"
    /\ Returned("final")

\* C18  Termination: under fair scheduling of the three processes, every
\* run in which no call raises ends with the original and the intermediate
\* exited and the final process returned.  The close loop makes one
\* iteration per descriptor number below the ceiling and stops at the
\* ceiling.  No step is tried again and no step waits: every step of a
\* process takes it to a later line, or to the next descriptor of the
\* loop, and a process inside daemonize can always take its next step.
Termination ==
    /\ <>(AllDone \/ \E p \in Procs : pc[p] = "raised")
    /\ [](\A p \in Procs :
             /\ maxfd[p] # -1 => 0 <= fd[p] /\ fd[p] <= maxfd[p]
             /\ pc[p] \in {"L120", "L123", "L124", "returned"} => fd[p] = maxfd[p]
             /\ InDaemonize(p) => ENABLED daemonize(p))
    /\ [][\A p \in Procs :
             /\ pc'[p] # pc[p] => LineOf(pc'[p]) > LineOf(pc[p])
             /\ pc'[p] = pc[p] /\ pc[p] # "absent" /\ fd'[p] # fd[p] =>
                   pc[p] = "L107" /\ fd'[p] = fd[p] + 1
             /\ pc[p] = "L107" /\ pc'[p] = "L120" => fd[p] = maxfd[p]]_vars
\* A complete run whose close loop had descriptors to pass over and an
\* error to drop.
TerminationWitness ==
    /\ AllDone
    /\ maxfd["final"] = DefaultMaxfd
    /\ swallowed["final"] # {}

\* C20  A failure of setsid or of the second fork leaves daemonize in the
\* intermediate process and never in the original, which goes on to exit
\* with status 0.  In such a run no final process exists and nobody has
\* called chdir, umask, getrlimit, close, open or dup2; the process that
\* sees the error has all the descriptors of the caller, and no others.
SecondStageFailure ==
    /\ [](\A p \in Procs :
             pc[p] = "raised" /\ (err[p] = "setsid" \/ (err[p] = "fork" /\ hist # << >>)) =>
                 /\ p = "intermediate"
                 /\ ppid[p] \in {ospid["original"], InitPid}
                 /\ pc["original"] \notin {"raised", "returned"}
                 /\ status["original"] \in {-1, 0}
                 /\ pc["final"] = "absent"
                 /\ \A i \in 1..Len(hist) :
                       hist[i][1] # "final" /\ hist[i][2] \in {"fork", "setsid"}
                 /\ \A q \in Procs : maxfd[q] = -1 /\ fd[q] = -1 /\ swallowed[q] = {}
                 /\ fdt[p] = atcall.fdt
                 /\ cwd[p] = atcall.cwd /\ fmask[p] = atcall.fmask)
    /\ (pc["intermediate"] = "raised")
          ~> (pc["original"] = "exited" /\ status["original"] = 0)
\* The second fork has failed while the original had not exited yet, in
\* the leader of the new session, which holds the standard descriptors.
SecondStageFailureWitness ==
    /\ pc["intermediate"] = "raised" /\ err["intermediate"] = "fork"
    /\ pc["original"] = "L96"
    /\ sid["intermediate"] = ospid["intermediate"]
    /\ DOMAIN fdt["intermediate"] = 0..2

====
